---- MODULE Spec2Model ----
(***************************************************************************)
(* A model of src/model_info.py: the ModelInfo record, its Flags and       *)
(* FileChanges trackers, the tracked-file dictionary built by              *)
(* set_model_paths, and the derived decisions (should_create_new_version,  *)
(* is_affected_by_commit, should_run_test, main_program_filepath,          *)
(* paths_under_model_by_relative).                                         *)
(*                                                                         *)
(* Python values are tagged records so that truthiness and the value       *)
(* returned by `or` / `and` are computed as Python computes them.  Paths   *)
(* are sequences of components, "/" first for an absolute path.  A dict is *)
(* a sequence of [key, value] entries in insertion order.  Lists live in a *)
(* heap and are held by reference, so that aliasing is expressible.        *)
(***************************************************************************)
EXTENDS Integers, Sequences, FiniteSets, TLC

(***************************************************************************)
(* Bounds of the model.                                                    *)
(***************************************************************************)
\* the longest path list handed to one set_model_paths call
MaxPaths == 2
\* the longest changed_or_new_files list
MaxChanged == 2
\* the longest deleted_file_ids list
MaxDeleted == 2
\* the longest change list where the change lists are not the subject
MaxFew == 1

(***************************************************************************)
(* Python values.                                                          *)
(***************************************************************************)
PyNone == [t |-> "NoneType"]
PyBool(b) == [t |-> "bool", b |-> b]
PyInt(n) == [t |-> "int", n |-> n]
PyStr(s) == [t |-> "str", s |-> s]
PyList(items) == [t |-> "list", items |-> items]
PyDict(d) == [t |-> "dict", d |-> d]
PyObject(o) == [t |-> "object", o |-> o]

\* bool(v)
Truthy(v) ==
    CASE v.t = "NoneType" -> FALSE
      [] v.t = "bool" -> v.b
      [] v.t = "int" -> v.n # 0
      [] v.t = "str" -> v.s # ""
      [] v.t = "list" -> v.items # <<>>
      [] v.t = "dict" -> DOMAIN v.d # {}
      [] v.t = "object" -> TRUE

\* a or b: the first operand when it is truthy, else the second
PyOr(a, b) == IF Truthy(a) THEN a ELSE b

\* a and b: the first operand when it is falsy, else the second
PyAnd(a, b) == IF Truthy(a) THEN b ELSE a

\* not a
PyNot(a) == PyBool(~Truthy(a))

(***************************************************************************)
(* The metadata schema (schema_validator.ModelSchema): key names and the   *)
(* nested lookup.                                                          *)
(***************************************************************************)
MODEL_ID_KEY == "user_provided_model_id"
VERSION_KEY == "version"
MEMORY_KEY == "memory"
REPLICAS_KEY == "replicas"
TEST_KEY == "test"
TEST_SKIP_KEY == "skip"

RECURSIVE SchemaGetValue(_, _)
\* ModelSchema.get_value(metadata, key, *sub_keys): None as soon as a key of
\* the chain is missing, else the value at the end of the chain
SchemaGetValue(value, keys) ==
    IF keys = <<>> THEN value
    ELSE IF value.t # "dict" THEN PyNone
    ELSE IF Head(keys) \notin DOMAIN value.d THEN PyNone
    ELSE SchemaGetValue(value.d[Head(keys)], Tail(keys))

(***************************************************************************)
(* Paths and model_file_path.ModelFilePath.                                *)
(***************************************************************************)
\* the process's working directory, against which a relative path resolves
Cwd == <<"/", "repo">>

IsAbsolute(p) == p # <<>> /\ Head(p) = "/"

RECURSIVE Normalize(_, _)
\* drops "." components and lets ".." remove the component before it
Normalize(acc, rest) ==
    IF rest = <<>> THEN acc
    ELSE LET c == Head(rest) IN
         IF c = "." THEN Normalize(acc, Tail(rest))
         ELSE IF c = ".."
              THEN Normalize(IF Len(acc) > 1 THEN SubSeq(acc, 1, Len(acc) - 1) ELSE acc,
                             Tail(rest))
              ELSE Normalize(Append(acc, c), Tail(rest))

\* Path.resolve(): the canonical absolute form
Resolve(p) == Normalize(<<>>, IF IsAbsolute(p) THEN p ELSE Cwd \o p)

\* whether canonical path p is root or a descendant of it
IsUnder(p, root) == Len(root) <= Len(p) /\ SubSeq(p, 1, Len(root)) = root

\* p relative to root
RelativeTo(p, root) == SubSeq(p, Len(root) + 1, Len(p))

\* ModelFilePath.RelativeTo
RelMODEL == "MODEL"
RelROOT == "ROOT"
Relations == {RelMODEL, RelROOT}

\* whether ModelFilePath(path, model_path, repo_root_path) can be built: a
\* path outside both roots is a classification failure
Classifies(path, model_path, repo_root_path) ==
    \/ IsUnder(Resolve(path), Resolve(model_path))
    \/ IsUnder(Resolve(path), Resolve(repo_root_path))

\* ModelFilePath(path, model_path, repo_root_path): the model root is tried
\* first, the repository root second
ModelFilePath(path, model_path, repo_root_path) ==
    LET resolved == Resolve(path)
        under_m == IsUnder(resolved, Resolve(model_path))
    IN  [filepath |-> path,
         resolved |-> resolved,
         relative_to |-> IF under_m THEN RelMODEL ELSE RelROOT,
         under_model |-> IF under_m THEN RelativeTo(resolved, Resolve(model_path))
                         ELSE RelativeTo(resolved, Resolve(repo_root_path)),
         name |-> resolved[Len(resolved)]]

(***************************************************************************)
(* Python dict and list operations.                                        *)
(***************************************************************************)
\* {}
EmptyDict == <<>>

DictKeys(d) == {d[i].key : i \in 1..Len(d)}

\* d[k] = v: an existing key keeps its position and takes the new value, a
\* new key goes last
DictSetItem(d, k, v) ==
    IF k \in DictKeys(d)
    THEN [i \in 1..Len(d) |-> IF d[i].key = k THEN [key |-> k, value |-> v] ELSE d[i]]
    ELSE Append(d, [key |-> k, value |-> v])

\* an append that skips an element the list already holds
ListAppendUnique(s, x) == IF \E i \in 1..Len(s) : s[i] = x THEN s ELSE Append(s, x)

\* list.append(x)
ListAppend(s, x) == Append(s, x)

\* list.extend(xs)
ListExtend(s, xs) == s \o xs


(***************************************************************************)
(* ModelInfo.set_model_paths: the dictionary it leaves in                  *)
(* _model_file_paths.                                                      *)
(***************************************************************************)
RECURSIVE BuildPaths(_, _, _, _)
\* the for loop: each path is classified and stored under its resolved path;
\* a path that does not classify raises, which ends the loop and leaves the
\* entries stored so far
BuildPaths(d, paths, model_path, repo_root_path) ==
    IF paths = <<>> THEN d
    ELSE IF ~Classifies(Head(paths), model_path, repo_root_path) THEN d
    ELSE LET model_filepath == ModelFilePath(Head(paths), model_path, repo_root_path)
         IN  BuildPaths(DictSetItem(d, model_filepath.resolved, model_filepath),
                        Tail(paths), model_path, repo_root_path)

RECURSIVE BuildPathsByFilepath(_, _, _, _)
\* the loop with each entry stored under the path as it was given
BuildPathsByFilepath(d, paths, model_path, repo_root_path) ==
    IF paths = <<>> THEN d
    ELSE IF ~Classifies(Head(paths), model_path, repo_root_path) THEN d
    ELSE LET model_filepath == ModelFilePath(Head(paths), model_path, repo_root_path)
         IN  BuildPathsByFilepath(DictSetItem(d, model_filepath.filepath, model_filepath),
                                  Tail(paths), model_path, repo_root_path)

\* set_model_paths without the reset of the dictionary
SetModelPathsMerging(old, paths, model_path, repo_root_path) ==
    BuildPaths(old, paths, model_path, repo_root_path)

\* set_model_paths keyed by the given path instead of the resolved one
SetModelPathsByFilepath(old, paths, model_path, repo_root_path) ==
    BuildPathsByFilepath(EmptyDict, paths, model_path, repo_root_path)

\* set_model_paths building the dictionary aside and storing it only when
\* every path classified
SetModelPathsAllOrNothing(old, paths, model_path, repo_root_path) ==
    IF \E i \in 1..Len(paths) : ~Classifies(paths[i], model_path, repo_root_path)
    THEN old
    ELSE BuildPaths(EmptyDict, paths, model_path, repo_root_path)

\* the dictionary after set_model_paths(paths, repo_root_path) on a record
\* that tracked old
SetModelPaths(old, paths, model_path, repo_root_path) ==
    BuildPaths(EmptyDict, paths, model_path, repo_root_path)

\* whether the call raises
SetModelPathsRaises(paths, model_path, repo_root_path) ==
    \E i \in 1..Len(paths) : ~Classifies(paths[i], model_path, repo_root_path)

(***************************************************************************)
(* The state: one entry per ModelInfo record.                              *)
(***************************************************************************)
VARIABLES
    metadata,          \* record -> the metadata mapping given at construction
    model_path,        \* record -> the model's root directory
    model_file_paths,  \* record -> the dictionary resolved path -> ModelFilePath
    file_changes,      \* record -> references to the two lists of FileChanges
    flags,             \* record -> Flags
    heap,              \* list reference -> the list's elements
    last_set,          \* record -> the last set_model_paths call: its paths, whether
                       \* it raised, whether it dropped a file tracked before it
    add_log,           \* record -> the arguments of its add_changed calls, in order
    del_log,           \* record -> the ids of its extend_deleted calls, in order
    actor              \* the record the last operation was applied to (0: none)

vars == <<metadata, model_path, model_file_paths, file_changes, flags, heap,
          last_set, add_log, del_log, actor>>

Records == DOMAIN flags

\* a list shared by every record, as a class-level default would be
SharedList(owner, attr) == [owner |-> 0, attr |-> attr]

\* field(default_factory=list): a list of the instance's own
NewList(owner, attr) == [owner |-> owner, attr |-> attr]

\* FileChanges()
FileChanges(owner) ==
    [changed_or_new_files |-> NewList(owner, "changed_or_new_files"),
     deleted_file_ids |-> NewList(owner, "deleted_file_ids")]

\* Flags()
Flags == [should_upload_all_files |-> FALSE, should_update_settings |-> FALSE]

\* the repository root and the root directory of each record's model
RepoRoot == <<"/", "repo">>
ModelRoot(r) == <<"/", "repo", "models", IF r = 1 THEN "m1" ELSE "m2">>

NeverSet == [called |-> FALSE, paths |-> <<>>, raised |-> FALSE, dropped |-> FALSE]

\* ModelInfo(yaml_filepath, model_path, metadata) for each record of Recs
ModelInfoInit(Recs, Metas) ==
    /\ metadata \in [Recs -> Metas]
    /\ model_path = [r \in Recs |-> ModelRoot(r)]
    /\ model_file_paths = [r \in Recs |-> EmptyDict]
    /\ file_changes = [r \in Recs |-> FileChanges(r)]
    /\ flags = [r \in Recs |-> Flags]
    /\ heap = [ref \in UNION {{FileChanges(r).changed_or_new_files,
                               FileChanges(r).deleted_file_ids} : r \in Recs}
                 |-> <<>>]
    /\ last_set = [r \in Recs |-> NeverSet]
    /\ add_log = [r \in Recs |-> <<>>]
    /\ del_log = [r \in Recs |-> <<>>]
    /\ actor = 0

changed_or_new_files(r) == heap[file_changes[r].changed_or_new_files]
deleted_file_ids(r) == heap[file_changes[r].deleted_file_ids]

(***************************************************************************)
(* Operations.                                                             *)
(***************************************************************************)
\* the user_provided_id property, read by set_model_paths for its log line
user_provided_id(r) == metadata[r].d[MODEL_ID_KEY]

set_model_paths(r, paths, repo_root_path) ==
    /\ MODEL_ID_KEY \in DOMAIN metadata[r].d
    /\ model_file_paths' =
          [model_file_paths EXCEPT
             ![r] = SetModelPaths(@, paths, model_path[r], repo_root_path)]
    /\ last_set' =
          [last_set EXCEPT
             ![r] = [called |-> TRUE, paths |-> paths,
                     raised |-> SetModelPathsRaises(paths, model_path[r], repo_root_path),
                     dropped |-> ~(DictKeys(model_file_paths[r])
                                     \subseteq DictKeys(model_file_paths'[r]))]]
    /\ actor' = r
    /\ UNCHANGED <<metadata, model_path, file_changes, flags, heap, add_log, del_log>>

add_changed(r, model_file_path) ==
    /\ heap' = [heap EXCEPT ![file_changes[r].changed_or_new_files] =
                               ListAppend(@, model_file_path)]
    /\ add_log' = [add_log EXCEPT ![r] = Append(@, model_file_path)]
    /\ actor' = r
    /\ UNCHANGED <<metadata, model_path, model_file_paths, file_changes, flags,
                   last_set, del_log>>

extend_deleted(r, deleted_file_id_list) ==
    /\ heap' = [heap EXCEPT ![file_changes[r].deleted_file_ids] =
                               ListExtend(@, deleted_file_id_list)]
    /\ del_log' = [del_log EXCEPT ![r] = @ \o deleted_file_id_list]
    /\ actor' = r
    /\ UNCHANGED <<metadata, model_path, model_file_paths, file_changes, flags,
                   last_set, add_log>>

\* flags.should_upload_all_files = b
set_should_upload_all_files(r, b) ==
    /\ flags' = [flags EXCEPT ![r].should_upload_all_files = b]
    /\ actor' = r
    /\ UNCHANGED <<metadata, model_path, model_file_paths, file_changes, heap,
                   last_set, add_log, del_log>>

\* flags.should_update_settings = b
set_should_update_settings(r, b) ==
    /\ flags' = [flags EXCEPT ![r].should_update_settings = b]
    /\ actor' = r
    /\ UNCHANGED <<metadata, model_path, model_file_paths, file_changes, heap,
                   last_set, add_log, del_log>>


(***************************************************************************)
(* Derived properties of a record.                                         *)
(***************************************************************************)
get_value(r, keys) == SchemaGetValue(metadata[r], keys)

\* should_create_new_version reading the tracked files in place of the
\* changed files
should_create_new_version_tracked(r) ==
    PyOr(PyOr(PyOr(PyBool(flags[r].should_upload_all_files),
                   PyList(model_file_paths[r])),
              get_value(r, <<VERSION_KEY, MEMORY_KEY>>)),
         get_value(r, <<VERSION_KEY, REPLICAS_KEY>>))

\* should_create_new_version without the memory and replicas operands
should_create_new_version_files_only(r) ==
    PyOr(PyBool(flags[r].should_upload_all_files),
         PyList(changed_or_new_files(r)))

should_create_new_version(r) ==
    PyOr(PyOr(PyOr(PyBool(flags[r].should_upload_all_files),
                   PyList(changed_or_new_files(r))),
              get_value(r, <<VERSION_KEY, MEMORY_KEY>>)),
         get_value(r, <<VERSION_KEY, REPLICAS_KEY>>))

is_affected_by_commit(r) ==
    PyOr(should_create_new_version(r), PyBool(flags[r].should_update_settings))

\* should_run_test without the test of the section's presence
should_run_test_unguarded(r) ==
    PyNot(get_value(r, <<TEST_KEY, TEST_SKIP_KEY>>))

should_run_test(r) ==
    PyAnd(PyBool(TEST_KEY \in DOMAIN metadata[r].d),
          PyNot(get_value(r, <<TEST_KEY, TEST_SKIP_KEY>>)))

MainProgramName == "custom.py"

RECURSIVE FirstNamed(_, _)
\* next(p for _, p in d.items() if p.name == name), None on StopIteration
FirstNamed(d, name) ==
    IF d = <<>> THEN PyNone
    ELSE IF Head(d).value.name = name THEN PyObject(Head(d).value)
    ELSE FirstNamed(Tail(d), name)

RECURSIVE LastNamed(_, _)
\* the last match in place of the first
LastNamed(d, name) ==
    IF d = <<>> THEN PyNone
    ELSE IF d[Len(d)].value.name = name THEN PyObject(d[Len(d)].value)
    ELSE LastNamed(SubSeq(d, 1, Len(d) - 1), name)

\* main_program_filepath returning the last match
main_program_filepath_last(r) == LastNamed(model_file_paths[r], MainProgramName)

main_program_filepath(r) == FirstNamed(model_file_paths[r], MainProgramName)

main_program_exists(r) == main_program_filepath(r) # PyNone

\* paths_under_model_by_relative collecting the file names
paths_under_model_by_relative_name(r, relative_to) ==
    {<<model_file_paths[r][i].value.name>> :
        i \in {j \in 1..Len(model_file_paths[r]) :
                 model_file_paths[r][j].value.relative_to = relative_to}}

paths_under_model_by_relative(r, relative_to) ==
    {model_file_paths[r][i].value.under_model :
        i \in {j \in 1..Len(model_file_paths[r]) :
                 model_file_paths[r][j].value.relative_to = relative_to}}

(***************************************************************************)
(* Inputs.                                                                 *)
(***************************************************************************)
PathCustom == <<"/", "repo", "models", "m1", "custom.py">>
PathCustomRel == <<".", "models", "m1", "custom.py">>
PathLib == <<"/", "repo", "common", "lib.py">>
PathLibDots == <<"/", "repo", "models", "..", "common", "lib.py">>
PathRepoCustom == <<"/", "repo", "custom.py">>
PathOutside == <<"/", "tmp", "x.py">>

AllPaths == {PathCustom, PathCustomRel, PathLib, PathLibDots, PathRepoCustom, PathOutside}

SeqsUpTo(S, n) == UNION {[1..k -> S] : k \in 0..n}

NoKeys == [k \in {} |-> PyNone]
OneKey(k, v) == [x \in {k} |-> v]
WithKey(d, k, v) == [x \in DOMAIN d \cup {k} |-> IF x = k THEN v ELSE d[x]]

MetaBase == OneKey(MODEL_ID_KEY, PyStr("my-model"))
MetaVersion(section) == PyDict(WithKey(MetaBase, VERSION_KEY, PyDict(section)))
MetaTest(section) == PyDict(WithKey(MetaBase, TEST_KEY, PyDict(section)))

AllMetas ==
    {PyDict(MetaBase),
     MetaVersion(NoKeys),
     MetaVersion(OneKey(MEMORY_KEY, PyStr("256Mi"))),
     MetaVersion(OneKey(MEMORY_KEY, PyNone)),
     MetaVersion(OneKey(REPLICAS_KEY, PyInt(2))),
     MetaVersion(OneKey(REPLICAS_KEY, PyInt(0))),
     MetaTest(NoKeys),
     MetaTest(OneKey(TEST_SKIP_KEY, PyBool(TRUE))),
     MetaTest(OneKey(TEST_SKIP_KEY, PyBool(FALSE))),
     PyDict(WithKey(WithKey(MetaBase, VERSION_KEY,
                            PyDict(WithKey(OneKey(MEMORY_KEY, PyStr("256Mi")),
                                           REPLICAS_KEY, PyInt(2)))),
                    TEST_KEY, PyDict(OneKey(TEST_SKIP_KEY, PyBool(TRUE)))))}

\* The driving process's calls, with their arguments drawn from the given sets
\* and the lists kept within the given caps.
CallSetModelPaths(Paths, maxPaths) ==
    \E r \in Records, paths \in SeqsUpTo(Paths, maxPaths) :
        set_model_paths(r, paths, RepoRoot)

CallAddChanged(Changed, maxChanged) ==
    \E r \in Records, p \in Changed :
        /\ Len(changed_or_new_files(r)) < maxChanged
        /\ add_changed(r, ModelFilePath(p, model_path[r], RepoRoot))

CallExtendDeleted(Ids, maxDeleted) ==
    \E r \in Records, ids \in SeqsUpTo(Ids, maxDeleted) :
        /\ Len(deleted_file_ids(r)) + Len(ids) <= maxDeleted
        /\ extend_deleted(r, ids)

WriteShouldUploadAllFiles ==
    \E r \in Records, b \in BOOLEAN : set_should_upload_all_files(r, b)

WriteShouldUpdateSettings ==
    \E r \in Records, b \in BOOLEAN : set_should_update_settings(r, b)

(***************************************************************************)
(* Spec: one record, every metadata, the change lists and flags in full.   *)
(***************************************************************************)
Init == ModelInfoInit({1}, AllMetas)
Next ==
    \/ CallSetModelPaths({PathCustom}, MaxFew)
    \/ CallAddChanged({PathCustom, PathLib}, MaxChanged)
    \/ CallExtendDeleted({"f1", "f2"}, MaxDeleted)
    \/ WriteShouldUploadAllFiles
    \/ WriteShouldUpdateSettings
Spec == Init /\ [][Next]_vars

(***************************************************************************)
(* SpecPaths: one record, every path form handed to set_model_paths, the   *)
(* change lists left as constructed.                                       *)
(***************************************************************************)
InitPaths == ModelInfoInit({1}, {PyDict(MetaBase)})
NextPaths ==
    \/ CallSetModelPaths(AllPaths, MaxPaths)
    \/ WriteShouldUploadAllFiles
    \/ WriteShouldUpdateSettings
SpecPaths == InitPaths /\ [][NextPaths]_vars

(***************************************************************************)
(* SpecTwo: two records constructed separately.                            *)
(***************************************************************************)
InitTwo == ModelInfoInit({1, 2}, {PyDict(MetaBase)})
NextTwo ==
    \/ CallSetModelPaths({PathCustom}, MaxFew)
    \/ CallAddChanged({PathCustom}, MaxFew)
    \/ CallExtendDeleted({"f1"}, MaxFew)
    \/ WriteShouldUploadAllFiles
    \/ WriteShouldUpdateSettings
SpecTwo == InitTwo /\ [][NextTwo]_vars


(***************************************************************************)
(* SpecFail: one record, path lists that may hold a path outside both      *)
(* roots, the change lists and the flags written between the calls.        *)
(***************************************************************************)
InitFail == ModelInfoInit({1}, {PyDict(MetaBase)})
NextFail ==
    \/ CallSetModelPaths({PathCustom, PathLib, PathOutside}, MaxPaths)
    \/ CallAddChanged({PathCustom}, MaxFew)
    \/ CallExtendDeleted({"f1"}, MaxFew)
    \/ WriteShouldUploadAllFiles
    \/ WriteShouldUpdateSettings
SpecFail == InitFail /\ [][NextFail]_vars

(***************************************************************************)
(* What the metadata declares, read off the mapping directly.              *)
(***************************************************************************)
Declares(r, section, key) ==
    /\ section \in DOMAIN metadata[r].d
    /\ metadata[r].d[section].t = "dict"
    /\ key \in DOMAIN metadata[r].d[section].d

DeclaredValue(r, section, key) == metadata[r].d[section].d[key]

NoVersionOverride(r) ==
    /\ ~Declares(r, VERSION_KEY, MEMORY_KEY)
    /\ ~Declares(r, VERSION_KEY, REPLICAS_KEY)

FlagsFalse(r) ==
    /\ ~flags[r].should_upload_all_files
    /\ ~flags[r].should_update_settings

(***************************************************************************)
(* Claims checked under Spec.                                              *)
(***************************************************************************)
\* C1: a record with both flags false, no changed or new file and no
\* version-scoped memory or replicas override, on which extend_deleted was
\* called with a non-empty list of ids, should create a new version.
C1_DeletedIdsCreateVersion ==
    \A r \in Records :
        ( /\ FlagsFalse(r)
          /\ changed_or_new_files(r) = <<>>
          /\ NoVersionOverride(r)
          /\ del_log[r] # <<>> )
        => Truthy(should_create_new_version(r))

\* C3 as stated: with both flags false and both change lists empty, a
\* version-scoped memory key, or replicas key, declared with any value makes
\* should_create_new_version true.
C3_AnyDeclaredValueCreatesVersion ==
    \A r \in Records :
        ( /\ FlagsFalse(r)
          /\ changed_or_new_files(r) = <<>>
          /\ deleted_file_ids(r) = <<>>
          /\ \/ Declares(r, VERSION_KEY, MEMORY_KEY)
             \/ Declares(r, VERSION_KEY, REPLICAS_KEY) )
        => Truthy(should_create_new_version(r))

\* C3 as amended: with both flags false and both change lists empty, a
\* version-scoped memory key, or replicas key, declared with a truthy value
\* (not None, not zero, not empty) makes should_create_new_version true.
C3_TruthyDeclaredValueCreatesVersion ==
    \A r \in Records :
        ( /\ FlagsFalse(r)
          /\ changed_or_new_files(r) = <<>>
          /\ deleted_file_ids(r) = <<>>
          /\ \/ /\ Declares(r, VERSION_KEY, MEMORY_KEY)
                /\ Truthy(DeclaredValue(r, VERSION_KEY, MEMORY_KEY))
             \/ /\ Declares(r, VERSION_KEY, REPLICAS_KEY)
                /\ Truthy(DeclaredValue(r, VERSION_KEY, REPLICAS_KEY)) )
        => Truthy(should_create_new_version(r))

\* a record that declares only a memory override, scanned, with nothing
\* else set, and that should create a new version
C3_Witness ==
    \E r \in Records :
        /\ metadata[r] = MetaVersion(OneKey(MEMORY_KEY, PyStr("256Mi")))
        /\ FlagsFalse(r)
        /\ changed_or_new_files(r) = <<>>
        /\ deleted_file_ids(r) = <<>>
        /\ last_set[r].called
        /\ Truthy(should_create_new_version(r))

\* C4: should_run_test is true exactly when the metadata has a "test"
\* section whose "skip" sub-key is absent or falsy, whatever the flags and the
\* change lists are: no "test" key gives false, {"test": {"skip": true}}
\* gives false, {"test": {}} gives true.
C4_ShouldRunTest ==
    \A r \in Records :
        /\ Truthy(should_run_test(r)) <=>
              /\ TEST_KEY \in DOMAIN metadata[r].d
              /\ ~( /\ Declares(r, TEST_KEY, TEST_SKIP_KEY)
                    /\ Truthy(DeclaredValue(r, TEST_KEY, TEST_SKIP_KEY)) )
        /\ metadata[r] = PyDict(MetaBase) => ~Truthy(should_run_test(r))
        /\ metadata[r] = MetaTest(OneKey(TEST_SKIP_KEY, PyBool(TRUE)))
              => ~Truthy(should_run_test(r))
        /\ metadata[r] = MetaTest(NoKeys) => Truthy(should_run_test(r))

\* a record with an empty test section that has both flags set and both
\* change lists filled, and that should run the test
C4_Witness ==
    \E r \in Records :
        /\ metadata[r] = MetaTest(NoKeys)
        /\ flags[r].should_upload_all_files
        /\ flags[r].should_update_settings
        /\ changed_or_new_files(r) # <<>>
        /\ deleted_file_ids(r) # <<>>
        /\ Truthy(should_run_test(r))

\* C8: a record that declares no version-scoped memory or replicas
\* override, whose flags are both false and on which neither add_changed nor
\* extend_deleted with a non-empty list was called, is not affected by the
\* commit and should not create a new version, however often
\* set_model_paths was called.
C8_UntriggeredNotAffected ==
    \A r \in Records :
        ( /\ NoVersionOverride(r)
          /\ FlagsFalse(r)
          /\ add_log[r] = <<>>
          /\ del_log[r] = <<>> )
        => /\ ~Truthy(is_affected_by_commit(r))
           /\ ~Truthy(should_create_new_version(r))

\* an untriggered record that tracks a file after set_model_paths
C8_Witness ==
    \E r \in Records :
        /\ NoVersionOverride(r)
        /\ FlagsFalse(r)
        /\ add_log[r] = <<>>
        /\ del_log[r] = <<>>
        /\ last_set[r].called
        /\ model_file_paths[r] # EmptyDict
        /\ ~Truthy(is_affected_by_commit(r))

\* C9: changed_or_new_files is the sequence of the descriptors passed to
\* add_changed, in call order with duplicates kept, and deleted_file_ids is
\* the concatenation, in call order, of the lists passed to extend_deleted;
\* no operation removes or reorders an element.
C9_ChangeListsAreTheCallLogs ==
    \A r \in Records :
        /\ changed_or_new_files(r) = add_log[r]
        /\ deleted_file_ids(r) = del_log[r]

\* a scanned record whose changed list holds one descriptor twice and whose
\* deleted list holds two ids
C9_Witness ==
    \E r \in Records :
        /\ Len(changed_or_new_files(r)) = 2
        /\ changed_or_new_files(r)[1] = changed_or_new_files(r)[2]
        /\ deleted_file_ids(r) = <<"f2", "f1">>
        /\ last_set[r].called


(***************************************************************************)
(* Claims checked under SpecPaths.                                         *)
(***************************************************************************)
\* the files the paths denote
ResolvedSet(paths) == {Resolve(paths[i]) : i \in 1..Len(paths)}

\* the first and the last place of a file in a path list
FirstIndex(paths, k) ==
    CHOOSE i \in 1..Len(paths) :
        /\ Resolve(paths[i]) = k
        /\ \A j \in 1..(i - 1) : Resolve(paths[j]) # k
LastIndex(paths, k) ==
    CHOOSE i \in 1..Len(paths) :
        /\ Resolve(paths[i]) = k
        /\ \A j \in (i + 1)..Len(paths) : Resolve(paths[j]) # k

\* d maps each file of paths, and nothing else, to the descriptor of the
\* last path given for it, the files in the order they first appear
IsMapOf(d, paths, root) ==
    /\ DictKeys(d) = ResolvedSet(paths)
    /\ Len(d) = Cardinality(ResolvedSet(paths))
    /\ \A i \in 1..Len(d) :
          d[i].value = ModelFilePath(paths[LastIndex(paths, d[i].key)], root, RepoRoot)
    /\ \A i, j \in 1..Len(d) :
          i < j => FirstIndex(paths, d[i].key) < FirstIndex(paths, d[j].key)

\* C2: after a set_model_paths call that returned, model_file_paths is
\* exactly the map built from the paths of that call alone; after any call
\* no entry is left over from an earlier one.
C2_FullReplace ==
    \A r \in Records :
        last_set[r].called =>
            /\ DictKeys(model_file_paths[r]) \subseteq ResolvedSet(last_set[r].paths)
            /\ ~last_set[r].raised =>
                  IsMapOf(model_file_paths[r], last_set[r].paths, model_path[r])

\* a call that returned, tracks a file and dropped a file tracked before it
C2_Witness ==
    \E r \in Records :
        /\ last_set[r].called
        /\ ~last_set[r].raised
        /\ last_set[r].dropped
        /\ model_file_paths[r] # EmptyDict

\* C5: every key of model_file_paths is the resolved path of its own value,
\* no two entries share a key, and after a call that returned the number of
\* entries is the number of distinct files among the paths given.
C5_KeysAreResolved ==
    \A r \in Records :
        /\ \A i \in 1..Len(model_file_paths[r]) :
              /\ model_file_paths[r][i].key = Resolve(model_file_paths[r][i].value.filepath)
              /\ model_file_paths[r][i].key = model_file_paths[r][i].value.resolved
        /\ \A i, j \in 1..Len(model_file_paths[r]) :
              i # j => model_file_paths[r][i].key # model_file_paths[r][j].key
        /\ (last_set[r].called /\ ~last_set[r].raised) =>
              Len(model_file_paths[r]) = Cardinality(ResolvedSet(last_set[r].paths))

\* two different paths to one file, tracked as one entry
C5_Witness ==
    \E r \in Records :
        /\ last_set[r].called
        /\ ~last_set[r].raised
        /\ Len(last_set[r].paths) = 2
        /\ last_set[r].paths[1] # last_set[r].paths[2]
        /\ Len(model_file_paths[r]) = 1

\* C6: paths_under_model_by_relative(relation) is the set of in-model names
\* of the tracked files of that relation, a file under the model root being
\* of the model relation although it is under the repository root too: with
\* /repo/models/m1/custom.py and /repo/common/lib.py tracked, the model
\* relation gives {custom.py} and the repository relation {common/lib.py},
\* and each tracked file is of exactly one relation.
C6_PathsByRelation ==
    \A r \in Records :
        LET keys == DictKeys(model_file_paths[r])
            inModel == {k \in keys : IsUnder(k, model_path[r])}
        IN  /\ paths_under_model_by_relative(r, RelMODEL) =
                  {RelativeTo(k, model_path[r]) : k \in inModel}
            /\ paths_under_model_by_relative(r, RelROOT) =
                  {RelativeTo(k, RepoRoot) : k \in keys \ inModel}
            /\ \A i \in 1..Len(model_file_paths[r]) :
                  /\ model_file_paths[r][i].value.relative_to \in Relations
                  /\ model_file_paths[r][i].value.relative_to = RelMODEL
                        <=> model_file_paths[r][i].key \in inModel
            /\ (model_path[r] = <<"/", "repo", "models", "m1">> /\ keys = {PathCustom, PathLib}) =>
                  /\ paths_under_model_by_relative(r, RelMODEL) = {<<"custom.py">>}
                  /\ paths_under_model_by_relative(r, RelROOT) = {<<"common", "lib.py">>}

\* the record of model m1 tracking /repo/models/m1/custom.py and
\* /repo/common/lib.py
C6_Witness ==
    \E r \in Records :
        /\ model_path[r] = <<"/", "repo", "models", "m1">>
        /\ DictKeys(model_file_paths[r]) = {PathCustom, PathLib}
        /\ paths_under_model_by_relative(r, RelMODEL) = {<<"custom.py">>}
        /\ paths_under_model_by_relative(r, RelROOT) = {<<"common", "lib.py">>}

\* the places of the tracked files named custom.py
MainIndexes(r) ==
    {i \in 1..Len(model_file_paths[r]) : model_file_paths[r][i].value.name = "custom.py"}

\* C7: main_program_exists() is false while no file is tracked and is true
\* exactly when a tracked file is named custom.py; main_program_filepath()
\* is then the first such descriptor in insertion order, and None otherwise.
C7_MainProgram ==
    \A r \in Records :
        /\ model_file_paths[r] = EmptyDict => ~main_program_exists(r)
        /\ main_program_exists(r) <=> MainIndexes(r) # {}
        /\ MainIndexes(r) # {} =>
              \E i \in MainIndexes(r) :
                  /\ \A j \in MainIndexes(r) : i <= j
                  /\ main_program_filepath(r) = PyObject(model_file_paths[r][i].value)
        /\ MainIndexes(r) = {} => main_program_filepath(r) = PyNone

\* two tracked files named custom.py, the first of them returned
C7_Witness ==
    \E r \in Records :
        /\ Cardinality(MainIndexes(r)) = 2
        /\ main_program_exists(r)
        /\ main_program_filepath(r) = PyObject(model_file_paths[r][1].value)

(***************************************************************************)
(* Claims checked under SpecTwo.                                           *)
(***************************************************************************)
\* what a record holds
RecordState(r) ==
    <<model_file_paths[r], changed_or_new_files(r), deleted_file_ids(r), flags[r]>>

\* C10: an operation on one record leaves every other record's
\* model_file_paths, changed_or_new_files, deleted_file_ids and flags as
\* they were.
C10_RecordsAreIndependent ==
    [][\A r \in Records : r # actor' => RecordState(r)' = RecordState(r)]_vars

\* record 1 scanned, flagged and with both change lists filled while record 2
\* is as constructed
C10_Witness ==
    /\ Records = {1, 2}
    /\ model_file_paths[1] # EmptyDict
    /\ changed_or_new_files(1) # <<>>
    /\ deleted_file_ids(1) # <<>>
    /\ flags[1].should_upload_all_files
    /\ flags[1].should_update_settings
    /\ RecordState(2) = <<EmptyDict, <<>>, <<>>, Flags>>


(***************************************************************************)
(* Claims checked under SpecFail.                                          *)
(***************************************************************************)
\* whether a path lies outside both the model root and the repository root
Outside(r, path) ==
    /\ ~IsUnder(Resolve(path), model_path[r])
    /\ ~IsUnder(Resolve(path), RepoRoot)

\* the paths that precede the first path lying outside both roots
BeforeFailure(r, paths) ==
    LET first == CHOOSE i \in 1..Len(paths) :
                     /\ Outside(r, paths[i])
                     /\ \A j \in 1..(i - 1) : ~Outside(r, paths[j])
    IN  SubSeq(paths, 1, first - 1)

\* a step that is a set_model_paths call on r, told by the call record
IsSetModelPathsStep(r) == actor' = r /\ last_set'[r] # last_set[r]

\* C11: a set_model_paths call raises exactly when one of its paths lies
\* outside both roots; the call then leaves the flags and both change
\* lists as they were, and model_file_paths holds exactly the entries of the
\* paths that precede the failing one, the map tracked before the call
\* being discarded and not restored.
C11_FailureLeavesPrefix ==
    /\ [](\A r \in Records :
            last_set[r].called =>
                /\ last_set[r].raised <=>
                      \E i \in 1..Len(last_set[r].paths) : Outside(r, last_set[r].paths[i])
                /\ last_set[r].raised =>
                      IsMapOf(model_file_paths[r],
                              BeforeFailure(r, last_set[r].paths), model_path[r]))
    /\ [][\A r \in Records :
            (IsSetModelPathsStep(r) /\ last_set'[r].raised) =>
                /\ flags' = flags
                /\ changed_or_new_files(r)' = changed_or_new_files(r)
                /\ deleted_file_ids(r)' = deleted_file_ids(r)
                /\ file_changes' = file_changes]_vars

\* a call that raised at its second path: the file of its first path is the
\* only one tracked, a file tracked before the call is gone, and the flags
\* and the change lists are set
C11_Witness ==
    \E r \in Records :
        /\ last_set[r].called
        /\ last_set[r].raised
        /\ last_set[r].dropped
        /\ Len(model_file_paths[r]) = 1
        /\ flags[r].should_upload_all_files
        /\ flags[r].should_update_settings
        /\ changed_or_new_files(r) # <<>>
        /\ deleted_file_ids(r) # <<>>

====
